---- MODULE Spec2Model ----
(***************************************************************************)
(* Furniture store backend: the image-similarity feature cache and ranking *)
(* (store/services.py) with the two endpoints that drive it                *)
(* (store/views.py: ImageSearchView, RefreshFeaturesView), and the chat    *)
(* assistant (store/views.py: product_assistant_stream and the chat        *)
(* history it reads and writes).                                           *)
(***************************************************************************)
EXTENDS Integers, Sequences, FiniteSets, TLC

VARIABLES
    catalog,    \* product id -> the Product row with its primary ProductImage
    cache,      \* the django cache entry under features_cache_key
    resp,       \* what the last request handler did and answered
    pc,         \* concurrent refreshes: the position of each refresh request
    local,      \* concurrent refreshes: the locals of each refresh request
    updates,    \* concurrent refreshes: catalog updates made so far
    chat_history,   \* the ChatHistory table, rows in the order of created_at
    turn,       \* the chat request being served: its generator's locals and position
    stream,     \* the events the chat request has queued for its client
    connected,  \* whether the client of the chat request still listens
    requests,   \* chat requests received so far
    chat_resp,  \* what the last chat or history request was asked and answered
    listing,    \* which of the Product tables the product search reads
    search,     \* what the last product search was asked and returned
    cart_items, \* the CartItem rows of the shopper's cart, in the order of creation
    has_cart,   \* whether the shopper's Cart row exists
    cart_resp,  \* what the last cart request was asked and answered
    adders,     \* concurrent cart additions: the locals and position of each request
    requested,  \* concurrent cart additions: product id -> quantity asked for so far
    orders,     \* the Order rows with their order items
    discount,   \* the Discount row of the one discount code
    checkouts,  \* the checkout requests: the locals and position of each
    records,    \* the BillingAddress and PaymentCard rows, in the order of creation
    record_resp,    \* what the last address or card request was asked and answered
    last_default    \* user, table -> the row most recently made the default

imageVars == <<catalog, cache, resp, pc, local, updates>>
chatVars == <<chat_history, turn, stream, connected, requests, chat_resp>>
searchVars == <<listing, search>>
cartVars == <<cart_items, has_cart, cart_resp, adders, requested>>
checkoutVars == <<orders, discount, checkouts>>
defaultVars == <<records, record_resp, last_default>>
vars == <<catalog, cache, resp, pc, local, updates,
          chat_history, turn, stream, connected, requests, chat_resp,
          listing, search,
          cart_items, has_cart, cart_resp, adders, requested,
          orders, discount, checkouts,
          records, record_resp, last_default>>

\* what the image endpoints, and what the chat endpoints, leave alone
shopVars == <<cartVars, checkoutVars, defaultVars>>
outsideImage == <<chatVars, searchVars, shopVars>>
outsideChat == <<imageVars, searchVars, shopVars>>
outsideSearch == <<imageVars, chatVars, shopVars>>
outsideShop == <<imageVars, chatVars, searchVars>>
outsideCart == <<outsideShop, checkoutVars, defaultVars>>
outsideDefaults == <<outsideShop, cartVars, checkoutVars>>

----------------------------------------------------------------------------
(* Bounds of the model *)

NumProducts == 2        \* products in the catalog
MaxTopK == 2            \* largest top_k a request asks for (the serializer allows 1..20)
MaxTicks == 3           \* how many clock ticks an entry's age is followed for
MaxUpdates == 1         \* catalog updates racing with the concurrent refreshes

(* Program constants *)

TTL == 3600             \* cache.set(..., 3600)
Scale == 10000          \* similarities are kept to 4 decimals: round(similarity, 4)
SimilarityFloor == Scale \div 2     \* item['similarity'] >= 0.5

Tick == TTL \div 2      \* seconds per clock tick

Products == 1..NumProducts
Workers == {"w1", "w2"}    \* two refresh requests served at the same time

None == <<>>            \* Python's None, and the empty dict / list

----------------------------------------------------------------------------
(* Images and embeddings *)

\* ResNet50 features of the product images of the model
ImageEmbeddings == { <<1, 1, 0>>, <<0, 1, 1>> }

\* features of the uploaded query images of the model
QueryEmbeddings == { <<1, 1, 0>>, <<0, 0, 1>> }

\* A product and its primary ProductImage, as far as the service looks:
\*   "inactive" is_active is False
\* and for an active product
\*   "none"     no image row with is_primary=True
\*   "blank"    a primary row whose image field is empty
\*   "missing"  the file is not under MEDIA_ROOT
\*   "corrupt"  the file exists and cannot be loaded or predicted
\*   "ok"       the file loads and has the embedding emb
RowKinds == {"inactive", "none", "blank", "missing", "corrupt", "ok"}

Rows ==
    { [kind |-> k, emb |-> None] : k \in RowKinds \ {"ok"} }
        \cup { [kind |-> "ok", emb |-> e] : e \in ImageEmbeddings }

\* An upload to the image-search endpoint:
\*   "notimage"     its name has none of the image extensions
\*   "unverifiable" PIL cannot open and verify its content
\*   "oversized"    an image of more than 10MB
\*   "corrupt"      passes validation and cannot be loaded by extract_features
\*   "ok"           loads and has the embedding emb
UploadKinds == {"notimage", "unverifiable", "oversized", "corrupt", "ok"}

Uploads ==
    { [kind |-> k, emb |-> None] : k \in UploadKinds \ {"ok"} }
        \cup { [kind |-> "ok", emb |-> e] : e \in QueryEmbeddings }

\* Faulty variant: the size of the file is not looked at.
validate_image_unsized(value) ==
    value.kind \notin {"notimage", "unverifiable"}

\* ImageSearchSerializer.validate_image: the extension, then the content,
\* then the size
validate_image(value) ==
    /\ value.kind # "notimage"
    /\ value.kind # "unverifiable"
    /\ value.kind # "oversized"

----------------------------------------------------------------------------
(* ImageSimilarityService.extract_features *)

extract_features(img) ==
    IF img.kind = "ok" THEN img.emb ELSE None

----------------------------------------------------------------------------
(* sklearn cosine_similarity on two vectors, to 4 decimals *)

RECURSIVE Dot(_, _)
Dot(a, b) ==
    IF a = <<>> THEN 0 ELSE Head(a) * Head(b) + Dot(Tail(a), Tail(b))

\* largest r in lo..hi with r * r * den <= num
RECURSIVE RootSearch(_, _, _, _)
RootSearch(num, den, lo, hi) ==
    IF lo >= hi THEN lo
    ELSE LET mid == (lo + hi + 1) \div 2
         IN  IF mid * mid * den <= num
             THEN RootSearch(num, den, mid, hi)
             ELSE RootSearch(num, den, lo, mid - 1)

\* dot(a, b) / (|a| * |b|), a zero norm counting as 1 (sklearn's normalize),
\* in units of 1/Scale
cosine_similarity(a, b) ==
    LET d  == Dot(a, b)
        na == Dot(a, a)
        nb == Dot(b, b)
        n  == (IF na = 0 THEN 1 ELSE na) * (IF nb = 0 THEN 1 ELSE nb)
        r  == RootSearch(Scale * Scale * d * d, n, 0, Scale)
    IN  IF d >= 0 THEN r ELSE 0 - r

SimilarityTable ==
    [q \in QueryEmbeddings, e \in ImageEmbeddings |-> cosine_similarity(q, e)]

----------------------------------------------------------------------------
(* The catalog as the ORM sees it *)

Catalogs == [Products -> Rows]

\* Product.Meta.ordering = ['-created_at']: product ids are handed out in
\* creation order, so the newest product (the largest id) comes first
RECURSIVE NewestFirst(_)
NewestFirst(n) ==
    IF n = 0 THEN <<>> ELSE <<n>> \o NewestFirst(n - 1)

\* Product.objects.filter(is_active=True, images__is_primary=True)
products_with_images(cat) ==
    SelectSeq(NewestFirst(NumProducts),
              LAMBDA p : cat[p].kind # "inactive" /\ cat[p].kind # "none")

\* Faulty variant: the loop body without the test of what extract_features returned
FeatureEntryUnchecked(cat, product) ==
    LET primary_image == cat[product]
        features == extract_features(primary_image)
    IN  IF /\ primary_image.kind # "none"
           /\ primary_image.kind # "blank"
           /\ primary_image.kind # "missing"
        THEN << [product_id |-> product, features |-> features] >>
        ELSE <<>>

\* the body of the loop over products_with_images for one product: the
\* entry it adds to product_features, or nothing
FeatureEntry(cat, product) ==
    LET primary_image == cat[product]
        features == extract_features(primary_image)
    IN  IF /\ primary_image.kind # "none"
           /\ primary_image.kind # "blank"          \* primary_image.image
           /\ primary_image.kind # "missing"        \* os.path.exists(image_path)
           /\ features # None
        THEN << [product_id |-> product, features |-> features] >>
        ELSE <<>>

\* does the loop body call extract_features for this product
Extracts(cat, product) ==
    cat[product].kind \in {"corrupt", "ok"}

\* product_features after the loop over `todo`: a dict in insertion order,
\* as the sequence of its items
RECURSIVE FeatureLoop(_, _, _)
FeatureLoop(cat, todo, product_features) ==
    IF todo = <<>> THEN product_features
    ELSE FeatureLoop(cat, Tail(todo),
                     product_features \o FeatureEntry(cat, Head(todo)))

\* Faulty variant: the first product that cannot be embedded ends the batch
RECURSIVE FeatureLoopAborting(_, _, _)
FeatureLoopAborting(cat, todo, product_features) ==
    IF todo = <<>> \/ FeatureEntry(cat, Head(todo)) = <<>> THEN product_features
    ELSE FeatureLoopAborting(cat, Tail(todo),
                             product_features \o FeatureEntry(cat, Head(todo)))

ComputeFeaturesAborting(cat) ==
    FeatureLoopAborting(cat, products_with_images(cat), <<>>)

ComputeFeatures(cat) ==
    FeatureLoop(cat, products_with_images(cat), <<>>)

\* how many extract_features calls the recomputation makes
ExtractCalls(cat) ==
    Cardinality({ i \in DOMAIN products_with_images(cat) :
                    Extracts(cat, products_with_images(cat)[i]) })

Keys(mapping) == { mapping[i].product_id : i \in DOMAIN mapping }

----------------------------------------------------------------------------
(* django.core.cache: one entry under features_cache_key *)

NoEntry == [present |-> FALSE, value |-> None, age |-> 0, timeout |-> 0]

\* cache.set(key, value, timeout)
CacheSet(value, timeout) ==
    [present |-> TRUE, value |-> value, age |-> 0, timeout |-> timeout]

\* an entry is gone once its timeout has passed
Expired(c) == c.age >= c.timeout

\* cache.get(key): the value, or None
CacheGet(c) ==
    IF c.present /\ ~Expired(c)
    THEN [found |-> TRUE, value |-> c.value]
    ELSE [found |-> FALSE, value |-> None]

\* Python truth of what cache.get returned: None and {} are both false
Truthy(got) == got.found /\ got.value # None

----------------------------------------------------------------------------
(* ImageSimilarityService.get_product_features *)

\* Faulty variant: a longer timeout
FeaturesTimeoutLong == 3 * TTL

\* the timeout of the cache write
FeaturesTimeout == TTL

\* Faulty variant: force_refresh is not looked at
ServedFromCacheAlways(force_refresh, c) ==
    Truthy(CacheGet(c))

\* does the call take the early return with the cached mapping
ServedFromCache(force_refresh, c) ==
    ~force_refresh /\ Truthy(CacheGet(c))

\* The call on catalog cat and cache entry c: what it returns, the entry it
\* leaves, how many embeddings it computed and whether it wrote the cache
get_product_features(force_refresh, cat, c) ==
    IF ServedFromCache(force_refresh, c)
    THEN [returned |-> CacheGet(c).value, entry |-> c,
          extracted |-> 0, wrote |-> FALSE, hit |-> TRUE]
    ELSE LET product_features == ComputeFeatures(cat)
         IN  [returned |-> product_features,
              entry |-> CacheSet(product_features, FeaturesTimeout),
              extracted |-> ExtractCalls(cat), wrote |-> TRUE, hit |-> FALSE]

NoCall == [returned |-> None, entry |-> NoEntry,
           extracted |-> 0, wrote |-> FALSE, hit |-> FALSE]

----------------------------------------------------------------------------
(* ImageSimilarityService.find_similar_products *)

\* the list `similarities` after the loop over product_features.items(); an
\* item whose comparison raises (features that are no vector) is skipped
RECURSIVE Similarities(_, _)
Similarities(query_features, product_features) ==
    IF product_features = <<>> THEN <<>>
    ELSE (IF Head(product_features).features \in ImageEmbeddings
          THEN << [product_id |-> Head(product_features).product_id,
                   similarity |-> SimilarityTable[query_features,
                                      Head(product_features).features]] >>
          ELSE <<>>)
         \o Similarities(query_features, Tail(product_features))

\* Faulty variant: x put in front of the items that are exactly as similar
RECURSIVE InsertBeforeTies(_, _)
InsertBeforeTies(sorted, x) ==
    IF sorted = <<>> THEN <<x>>
    ELSE IF Head(sorted).similarity > x.similarity
         THEN <<Head(sorted)>> \o InsertBeforeTies(Tail(sorted), x)
         ELSE <<x>> \o sorted

\* x put behind every item that is at least as similar
RECURSIVE InsertDescending(_, _)
InsertDescending(sorted, x) ==
    IF sorted = <<>> THEN <<x>>
    ELSE IF Head(sorted).similarity >= x.similarity
         THEN <<Head(sorted)>> \o InsertDescending(Tail(sorted), x)
         ELSE <<x>> \o sorted

\* Faulty variant: the sort without reverse=True
RECURSIVE SortAscending(_)
SortAscending(items) ==
    IF items = <<>> THEN <<>>
    ELSE LET rest == SortAscending(SubSeq(items, 1, Len(items) - 1))
             x == items[Len(items)]
             keep == SelectSeq(rest, LAMBDA y : y.similarity <= x.similarity)
             move == SelectSeq(rest, LAMBDA y : y.similarity > x.similarity)
         IN  keep \o <<x>> \o move

\* similarities.sort(key=lambda x: x['similarity'], reverse=True): list.sort
\* is stable, and stays so under reverse=True
RECURSIVE SortBySimilarity(_)
SortBySimilarity(items) ==
    IF items = <<>> THEN <<>>
    ELSE InsertDescending(SortBySimilarity(SubSeq(items, 1, Len(items) - 1)),
                          items[Len(items)])

\* similarities[:top_k], top_k >= 1
TopK(items, top_k) ==
    SubSeq(items, 1, IF top_k < Len(items) THEN top_k ELSE Len(items))

\* The call for the uploaded file on catalog cat and cache entry c: the list
\* it returns and the get_product_features call it made
find_similar_products(upload, top_k, cat, c) ==
    LET query_features == extract_features(upload)
        call == get_product_features(FALSE, cat, c)
    IN  IF query_features = None
        THEN [similar |-> <<>>, called |-> FALSE, call |-> NoCall, entry |-> c]
        ELSE IF call.returned = None
        THEN [similar |-> <<>>, called |-> TRUE, call |-> call,
              entry |-> call.entry]
        ELSE [similar |-> TopK(SortBySimilarity(
                              Similarities(query_features, call.returned)), top_k),
              called |-> TRUE, call |-> call, entry |-> call.entry]

----------------------------------------------------------------------------
(* The endpoints *)

NoResp ==
    [op |-> "none", status |-> 0, upload |-> [kind |-> "notimage", emb |-> None],
     top_k |-> 0, before |-> NoEntry, temp_file |-> FALSE, called |-> FALSE,
     call |-> NoCall, similar |-> <<>>, results |-> <<>>, total |-> 0]

\* Faulty variant: the loop without the similarity test
ResultsUnfiltered(similar_products) ==
    similar_products

\* the loop of ImageSearchView.post over similar_products
Results(similar_products) ==
    SelectSeq(similar_products, LAMBDA item : item.similarity >= SimilarityFloor)

\* ImageSearchView.post
ImageSearchPost(upload, top_k) ==
    /\ IF ~validate_image(upload)
       THEN /\ resp' = [NoResp EXCEPT !.op = "search", !.status = 400,
                                      !.upload = upload, !.before = cache]
            /\ cache' = cache
       ELSE LET found == find_similar_products(upload, top_k, catalog, cache)
                results == Results(found.similar)
            IN  /\ cache' = found.entry
                /\ resp' = [op |-> "search",
                            status |-> IF found.similar = <<>> THEN 404 ELSE 200,
                            upload |-> upload, top_k |-> top_k,
                            before |-> cache, temp_file |-> TRUE,
                            called |-> found.called, call |-> found.call,
                            similar |-> found.similar,
                            results |-> IF found.similar = <<>> THEN <<>>
                                        ELSE results,
                            total |-> IF found.similar = <<>> THEN 0
                                      ELSE Len(results)]
    /\ UNCHANGED <<catalog, pc, local, updates, outsideImage>>

\* RefreshFeaturesView.post
RefreshFeaturesPost ==
    LET call == get_product_features(TRUE, catalog, cache)
    IN  /\ cache' = call.entry
        /\ resp' = [NoResp EXCEPT !.op = "refresh", !.status = 200,
                                  !.before = cache, !.called = TRUE,
                                  !.call = call,
                                  !.total = Len(call.returned)]
        /\ UNCHANGED <<catalog, pc, local, updates, outsideImage>>

----------------------------------------------------------------------------
(* The environment: the catalog is edited, time passes *)

\* a product is activated or deactivated, or its primary image is added,
\* replaced, removed or damaged
UpdateProduct(p, row) ==
    /\ catalog[p] # row
    /\ catalog' = [catalog EXCEPT ![p] = row]
    /\ resp' = NoResp
    /\ UNCHANGED <<cache, pc, local, updates, outsideImage>>

\* half an hour passes; the cache backend drops an entry at its expiry
ClockTick ==
    /\ cache.present
    /\ cache.age < MaxTicks * Tick
    /\ cache' = IF cache.age + Tick >= cache.timeout
                THEN NoEntry
                ELSE [cache EXCEPT !.age = @ + Tick]
    /\ resp' = NoResp
    /\ UNCHANGED <<catalog, pc, local, updates, outsideImage>>

----------------------------------------------------------------------------
(* The chat assistant: texts, the completion service, the history table *)

MaxRequests == 3        \* chat requests received in one behaviour

DefaultLimit == 5       \* def get_chat_history(session_id, limit=5)
IntentWindow == 3       \* context_messages[-3:]

Sessions == {"s1", "s2"}

\* A text is a sequence of characters. "{" and "}" delimit a JSON object,
\* "a" stands for a member of it, any other character is prose.
Object == <<"{", "a", "}">>
Prose == <<"x">>
Empty == <<>>

\* the text of the n-th message users send
UserMessage(n) == <<"m" \o ToString(n)>>

\* a chunk of a streamed completion: chunk.choices[0].delta.content
NoneChunk == [none |-> TRUE, content |-> Empty]
Chunk(text) == [none |-> FALSE, content |-> text]

\* the completions the service streams back, as the chunks that arrive
Replies ==
    { <<Chunk(Object), NoneChunk>>,
      <<NoneChunk, Chunk(<<"{">>), Chunk(<<"a", "}">>)>>,
      <<Chunk(Prose), Chunk(Object), Chunk(Prose)>>,
      <<Chunk(Prose), Chunk(Empty), Chunk(Prose)>>,
      <<>> }

\* what the service answers to the intent question, word by word
Answers == { <<"product">>, <<"general">>, <<"a", "product", "search">> }

NoTurn ==
    [pc |-> "idle", session_id |-> "s1", user_message |-> Empty,
     chat_context |-> <<>>, pre_messages |-> <<>>, is_product_search |-> FALSE,
     response |-> <<>>, full_response |-> Empty]

\* no session_id in the request
NoSession == ""

NoChatResp ==
    [op |-> "none", session_id |-> NoSession, message |-> Empty, status |-> 0,
     error |-> FALSE, deleted |-> 0, history |-> <<>>]

NoChat ==
    /\ chat_history = <<>>
    /\ turn = NoTurn
    /\ stream = <<>>
    /\ connected = FALSE
    /\ requests = 0
    /\ chat_resp = NoChatResp

----------------------------------------------------------------------------
(* The product search of the chat assistant: search_products_by_criteria *)

NumListed == 24         \* products in the Product table the search reads
NumVariants == 3        \* the Product tables a search is tried on

SearchCap == 20         \* products = queryset[:20]
ResultCap == 10         \* 'products': products_found[:10]

ListedIds == 1..NumListed

\* A text is a sequence of words here; icontains looks for the words of the
\* needle, in a row, in the text, whatever their case.
Fold(word) ==
    CASE word = "Sofa" -> "sofa"
      [] word = "TABLE" -> "table"
      [] word = "Living" -> "living"
      [] word = "#FF0000" -> "#ff0000"
      [] word = "#00FF00" -> "#00ff00"
      [] OTHER -> word

FoldText(text) == [i \in 1..Len(text) |-> Fold(text[i])]

icontains(text, needle) ==
    \E i \in 1..(Len(text) - Len(needle) + 1) :
        FoldText(SubSeq(text, i, i + Len(needle) - 1)) = FoldText(needle)

\* 'أي لون', any color
AnyColor == <<"any", "color">>

\* the Product row p of table v, with its category and its available colors
\* (hex codes), in the order the join returns them
ProductRow(p, v) ==
    [is_active |-> (p + v) % 7 # 0,
     is_featured |-> (p * v) % 3 = 0,
     created_at |-> (p * 5) % 29,
     name |-> IF p % 2 = 0 THEN <<"Sofa">> ELSE <<"oak", "table">>,
     description |-> IF p % 4 = 1 THEN <<"a", "soft", "sofa">> ELSE <<"plain">>,
     short_description |-> IF p % 8 = 3 THEN <<"sofa", "bed">> ELSE <<>>,
     category |-> IF (p + v) % 2 = 0
                  THEN [name |-> <<"Living", "room">>, slug |-> <<"living-room">>]
                  ELSE [name |-> <<"Office">>, slug |-> <<"office">>],
     available_colors |->
         CASE p % 3 = 0 -> << <<"#FF0000">>, <<"#00ff00">> >>
           [] p % 3 = 1 -> << <<"#ff0000">> >>
           [] OTHER -> <<>>]

Listing(v) == [p \in ListedIds |-> ProductRow(p, v)]
\* the Product table as the product search reads it
ListingOf == [v \in 1..NumVariants |-> Listing(v)]
ProductTable == ListingOf[listing]

\* the value of a criterion in the parsed JSON: absent, a string or a list
Absent == [present |-> FALSE, is_list |-> FALSE, items |-> <<>>]
Single(text) == [present |-> TRUE, is_list |-> FALSE, items |-> <<text>>]
Several(texts) == [present |-> TRUE, is_list |-> TRUE, items |-> texts]

\* criteria.get(key): false for a missing key, "" and []
Given(value) ==
    /\ value.present
    /\ value.items # <<>>
    /\ value.is_list \/ value.items[1] # <<>>

Types == {Absent, Single(<<>>), Single(<<"sofa">>), Single(<<"TABLE">>)}
Categories == {Absent, Single(<<"living">>), Single(<<"office">>)}
Colors ==
    {Absent, Single(AnyColor), Single(<<"#ff0000">>), Several(<<>>),
     Several(<< <<"#00FF00">>, <<"#ff0000">> >>), Several(<< AnyColor >>),
     Several(<< AnyColor, <<"#00ff00">> >>)}

Criteria == [type : Types, category : Categories, color : Colors]

NoFound ==
    [called |-> FALSE,
     criteria |-> [type |-> Absent, category |-> Absent, color |-> Absent],
     fetched |-> <<>>, products_found |-> 0, products |-> <<>>]

NoSearch ==
    /\ listing = 1
    /\ search = NoFound

----------------------------------------------------------------------------
(* The cart, the checkout and the default records: their data *)

MaxQuantity == 3        \* largest quantity a cart item is followed to
MaxRecords == 3         \* billing addresses and payment cards created in one behaviour
MaxUses == 1            \* max_uses of the discount code

Users == {"u1", "u2"}
Unlisted == NumProducts + 1     \* a product id that no Product row has

\* a CartItem row of the cart
CartItem(product, quantity) == [product |-> product, quantity |-> quantity]

\* request values as a view receives them: a key that was not sent (None), a
\* JSON number, the decimal string of a number (form data) and a string that
\* is no number
NotSent == [kind |-> "none", n |-> 0]
Number(n) == [kind |-> "int", n |-> n]
Text(n) == [kind |-> "str", n |-> n]
Word == [kind |-> "word", n |-> 0]

AddQuantities == {0, 1, 2}      \* the quantities the add requests send

NoCartResp ==
    [op |-> "none", status |-> 0, product_id |-> 0,
     product_quantity |-> NotSent, quantity |-> NotSent, items |-> <<>>]

IdleAdder == [pc |-> "idle", product |-> 0, quantity |-> 0, item |-> 0]

NoCart ==
    /\ cart_items = <<>>
    /\ has_cart = FALSE
    /\ cart_resp = NoCartResp
    /\ adders = [w \in Workers |-> IdleAdder]
    /\ requested = [p \in Products |-> 0]

\* the Discount row: is_active, whether now lies between valid_from and
\* valid_until, max_uses and used_count
NewDiscount ==
    [is_active |-> TRUE, in_window |-> TRUE, max_uses |-> MaxUses, used_count |-> 0]

\* the fields of the Order model, and the keyword arguments CheckoutView.post
\* passes to Order.objects.create
OrderFields ==
    {"order_id", "user", "billing_address", "shipping_method", "subtotal",
     "discount_value", "shipping_cost", "total", "payment_method",
     "payment_completed", "payment_date", "status", "privacy_policy_agreed",
     "created_at", "updated_at"}
CreateKwargs ==
    {"user", "order_number", "billing_address", "shipping_method", "discount",
     "subtotal", "discount_amount", "shipping_cost", "total_amount",
     "payment_method", "status"}

\* the reverse accessor OrderItem.order gives an Order, and the one
\* CheckoutView.post uses
OrderAccessors == {"order_items"}
ItemsAccessor == "items"

NoOrder == 0
IdleCheckout ==
    [pc |-> "idle", code |-> FALSE, found |-> TRUE, had_items |-> FALSE,
     used_count |-> 0, order |-> NoOrder, removed |-> <<>>, status |-> 0]

NoCheckout ==
    /\ orders = <<>>
    /\ discount = NewDiscount
    /\ checkouts = [w \in Workers |-> IdleCheckout]

Tables == {"address", "card"}   \* BillingAddress and PaymentCard
NoRecord == 0
NoRecordResp ==
    [op |-> "none", user |-> "", table |-> "", id |-> NoRecord,
     is_default |-> "unset", status |-> 0]

\* is_default as a request sends it, or leaves it out
DefaultsSent == {"unset", "true", "false"}
\* payment_token = CharField(max_length=255, unique=True), which no request
\* sets: every card the endpoint creates holds the empty string
EmptyToken == ""

NoRecords ==
    /\ records = <<>>
    /\ record_resp = NoRecordResp
    /\ last_default = [u \in Users, t \in Tables |-> NoRecord]

NoShop == NoCart /\ NoCheckout /\ NoRecords

----------------------------------------------------------------------------
(* Requests served one at a time *)

EmptyCatalog ==
    [p \in Products |-> [kind |-> "none", emb |-> None]]

Idle == [w \in Workers |-> "idle"]
NoLocals == [w \in Workers |-> [todo |-> <<>>, product_features |-> <<>>]]

Init ==
    /\ catalog = EmptyCatalog
    /\ cache = NoEntry
    /\ resp = NoResp
    /\ pc = Idle
    /\ local = NoLocals
    /\ updates = 0
    /\ NoChat
    /\ NoSearch
    /\ NoShop

Next ==
    \/ \E p \in Products, row \in Rows : UpdateProduct(p, row)
    \/ ClockTick
    \/ \E upload \in Uploads, top_k \in 1..MaxTopK : ImageSearchPost(upload, top_k)
    \/ RefreshFeaturesPost

Spec == Init /\ [][Next]_vars

----------------------------------------------------------------------------
(* Refresh requests served at the same time: get_product_features(True)  *)
(* in steps. Each request has its own product_features; the catalog and  *)
(* the cache entry are shared, and nothing is locked.                    *)

\* Faulty variant: a product that cannot be embedded ends the loop
LoopStepBreaking(l, cat) ==
    IF FeatureEntry(cat, Head(l.todo)) = <<>>
    THEN [todo |-> <<>>, product_features |-> l.product_features]
    ELSE [todo |-> Tail(l.todo),
          product_features |->
              l.product_features \o FeatureEntry(cat, Head(l.todo))]

\* one iteration of the loop over products_with_images: the image row of the
\* product is queried, and its file read, now
LoopStep(l, cat) ==
    [todo |-> Tail(l.todo),
     product_features |-> l.product_features \o FeatureEntry(cat, Head(l.todo))]

\* the queryset is evaluated when the loop starts
RefreshBegin(w) ==
    /\ pc[w] = "idle"
    /\ pc' = [pc EXCEPT ![w] = "loop"]
    /\ local' = [local EXCEPT ![w] = [todo |-> products_with_images(catalog),
                                       product_features |-> <<>>]]
    /\ UNCHANGED <<catalog, cache, resp, updates, outsideImage>>

RefreshEmbed(w) ==
    /\ pc[w] = "loop"
    /\ local[w].todo # <<>>
    /\ local' = [local EXCEPT ![w] = LoopStep(local[w], catalog)]
    /\ UNCHANGED <<catalog, cache, resp, pc, updates, outsideImage>>

\* cache.set(self.features_cache_key, product_features, 3600)
RefreshStore(w) ==
    /\ pc[w] = "loop"
    /\ local[w].todo = <<>>
    /\ cache' = CacheSet(local[w].product_features, FeaturesTimeout)
    /\ pc' = [pc EXCEPT ![w] = "done"]
    /\ UNCHANGED <<catalog, resp, local, updates, outsideImage>>

\* The catalog is edited while refreshes run. A deactivated product keeps
\* its image rows, which the catalog of this model does not record, so no
\* product is deactivated here.
RaceUpdate(p, row) ==
    /\ updates < MaxUpdates
    /\ row.kind # "inactive"
    /\ catalog[p] # row
    /\ catalog' = [catalog EXCEPT ![p] = row]
    /\ updates' = updates + 1
    /\ UNCHANGED <<cache, resp, pc, local, outsideImage>>

RaceInit ==
    /\ catalog \in Catalogs
    /\ cache = NoEntry
    /\ resp = NoResp
    /\ pc = Idle
    /\ local = NoLocals
    /\ updates = 0
    /\ NoChat
    /\ NoSearch
    /\ NoShop

RaceNext ==
    \/ \E w \in Workers : RefreshBegin(w)
    \/ \E w \in Workers : RefreshEmbed(w)
    \/ \E w \in Workers : RefreshStore(w)
    \/ \E p \in Products, row \in Rows : RaceUpdate(p, row)

SpecRace == RaceInit /\ [][RaceNext]_vars

AllDone == \A w \in Workers : pc[w] = "done"

----------------------------------------------------------------------------
(* The chat assistant: product_assistant_stream and the chat history *)

Reversed(s) == [i \in 1..Len(s) |-> s[Len(s) + 1 - i]]

\* s[:limit]
FirstN(s, limit) == SubSeq(s, 1, IF limit < Len(s) THEN limit ELSE Len(s))

\* s[-n:]
LastN(s, n) == SubSeq(s, IF Len(s) > n THEN Len(s) - n + 1 ELSE 1, Len(s))

\* ChatHistory.objects.create(...): the row gets the time of its creation as
\* created_at, so the table in the order of insertion is in the order of
\* created_at
Create(rows, row) == Append(rows, row)

\* ChatHistory.objects.filter(session_id=session_id)
FilterSession(rows, session_id) ==
    SelectSeq(rows, LAMBDA row : row.session_id = session_id)

\* .order_by('-created_at')
OrderByNewest(rows) == Reversed(rows)

\* Faulty variant: the rows are not put back into chronological order.
get_chat_history_newest_first(rows, session_id, limit) ==
    LET chats == FirstN(OrderByNewest(FilterSession(rows, session_id)), limit)
    IN  [i \in 1..(2 * Len(chats)) |->
            IF i % 2 = 1
            THEN [role |-> "user", content |-> chats[(i + 1) \div 2].user_message]
            ELSE [role |-> "assistant",
                  content |-> chats[i \div 2].assistant_response]]

get_chat_history(rows, session_id, limit) ==
    LET history == FirstN(OrderByNewest(FilterSession(rows, session_id)), limit)
        chats == Reversed(history)
    IN  [i \in 1..(2 * Len(chats)) |->
            IF i % 2 = 1
            THEN [role |-> "user", content |-> chats[(i + 1) \div 2].user_message]
            ELSE [role |-> "assistant",
                  content |-> chats[i \div 2].assistant_response]]

\* Faulty variant: every row is stored as a general reply.
save_chat_history_untyped(rows, session_id, user_message, assistant_response, message_type) ==
    Create(rows, [session_id |-> session_id,
                  user_message |-> user_message,
                  assistant_response |-> assistant_response,
                  message_type |-> "normal_response"])

save_chat_history(rows, session_id, user_message, assistant_response, message_type) ==
    Create(rows, [session_id |-> session_id,
                  user_message |-> user_message,
                  assistant_response |-> assistant_response,
                  message_type |-> message_type])

\* json.loads(text): the text parses when it is a JSON object and nothing
\* else; json.loads raises on any other text
IsObject(text) ==
    /\ Len(text) >= 2
    /\ text[1] = "{"
    /\ text[Len(text)] = "}"
    /\ \A i \in 2..(Len(text) - 1) : text[i] = "a"

json_loads(text) ==
    IF IsObject(text)
    THEN [ok |-> TRUE, value |-> SubSeq(text, 2, Len(text) - 1)]
    ELSE [ok |-> FALSE, value |-> Empty]

\* "product" in pre_response.choices[0].message.content
is_product_search(content) == \E i \in 1..Len(content) : content[i] = "product"

response_type(product_search) ==
    IF product_search THEN "product_search" ELSE "normal_response"

\* the events of the stream
TypeEvent(product_search) == [kind |-> "type", data |-> <<response_type(product_search)>>]
ChunkEvent(content) == [kind |-> "chunk", data |-> content]
ResultEvent(product_data) == [kind |-> "final_result", data |-> product_data]
ClosedEvent == [kind |-> "closed", data |-> Empty]

\* yield: the event is written to the client; when the client is gone the
\* server closes the generator at this yield
Queued(event) == IF connected THEN Append(stream, event) ELSE stream
Resumed(next_pc) == IF connected THEN next_pc ELSE "aborted"

Finished == {"idle", "done", "crashed", "aborted"}

\* Faulty variant: the view does not look at the message.
StartRequestUnchecked(session_id, message) ==
    /\ turn.pc \in Finished
    /\ requests < MaxRequests
    /\ requests' = requests + 1
    /\ turn' = [NoTurn EXCEPT
                  !.pc = "start",
                  !.session_id = session_id,
                  !.user_message = message,
                  !.chat_context = get_chat_history(chat_history, session_id,
                                                    DefaultLimit)]
    /\ stream' = <<>>
    /\ connected' = TRUE
    /\ chat_resp' = [NoChatResp EXCEPT !.op = "chat", !.session_id = session_id,
                                       !.message = message, !.status = 200]
    /\ UNCHANGED <<chat_history, outsideChat>>

\* the view: the message is read and a request without one is answered 400;
\* else the context of the session is fetched and the streaming response is
\* handed to the server
StartRequest(session_id, message) ==
    /\ turn.pc \in Finished
    /\ requests < MaxRequests
    /\ IF message = Empty
       THEN /\ chat_resp' = [NoChatResp EXCEPT !.op = "chat", !.status = 400,
                                               !.error = TRUE]
            /\ UNCHANGED <<chat_history, turn, stream, connected, requests,
                           outsideChat>>
       ELSE /\ requests' = requests + 1
            /\ turn' = [NoTurn EXCEPT
                          !.pc = "start",
                          !.session_id = session_id,
                          !.user_message = message,
                          !.chat_context = get_chat_history(chat_history,
                                                            session_id,
                                                            DefaultLimit)]
            /\ stream' = <<>>
            /\ connected' = TRUE
            /\ chat_resp' = [NoChatResp EXCEPT
                               !.op = "chat", !.session_id = session_id,
                               !.message = message, !.status = 200]
            /\ UNCHANGED <<chat_history, outsideChat>>

\* the intent is asked for, then the type event is yielded
Classify(answer) ==
    /\ turn.pc = "start"
    /\ LET context_messages ==
               turn.chat_context
                   \o <<[role |-> "user", content |-> turn.user_message]>>
           product_search == is_product_search(answer)
       IN  /\ turn' = [turn EXCEPT
                         !.pre_messages = LastN(context_messages, IntentWindow),
                         !.is_product_search = product_search,
                         !.pc = Resumed("classified")]
           /\ stream' = Queued(TypeEvent(product_search))
    /\ UNCHANGED <<chat_history, connected, requests, outsideChat>>
    /\ chat_resp' = NoChatResp

\* client.chat.completions.create(..., stream=True)
OpenStream(reply) ==
    /\ turn.pc = "classified"
    /\ turn' = [turn EXCEPT !.response = reply, !.full_response = Empty,
                            !.pc = "streaming"]
    /\ UNCHANGED <<chat_history, stream, connected, requests, outsideChat>>
    /\ chat_resp' = NoChatResp

\* Faulty variant: the fragments are collected and none is forwarded.
ConsumeBuffering ==
    /\ turn.pc = "streaming"
    /\ turn.response # <<>>
    /\ LET chunk == Head(turn.response)
       IN  turn' = [turn EXCEPT !.response = Tail(@),
                                !.full_response =
                                    IF chunk.none THEN @ ELSE @ \o chunk.content]
    /\ UNCHANGED <<chat_history, stream, connected, requests, outsideChat>>
    /\ chat_resp' = NoChatResp

\* one iteration of "for chunk in response"
Consume ==
    /\ turn.pc = "streaming"
    /\ turn.response # <<>>
    /\ LET chunk == Head(turn.response)
       IN  IF chunk.none
           THEN /\ turn' = [turn EXCEPT !.response = Tail(@)]
                /\ stream' = stream
           ELSE IF turn.is_product_search
           THEN /\ turn' = [turn EXCEPT !.response = Tail(@),
                                        !.full_response = @ \o chunk.content]
                /\ stream' = stream
           ELSE /\ turn' = [turn EXCEPT !.response = Tail(@),
                                        !.full_response = @ \o chunk.content,
                                        !.pc = Resumed("streaming")]
                /\ stream' = Queued(ChunkEvent(chunk.content))
    /\ UNCHANGED <<chat_history, connected, requests, outsideChat>>
    /\ chat_resp' = NoChatResp

\* the product branch after the loop: the criteria are parsed and the final
\* result is yielded; json.loads raising ends the generator
EmitResults ==
    /\ turn.pc = "streaming"
    /\ turn.response = <<>>
    /\ turn.is_product_search
    /\ LET product_data == json_loads(turn.full_response)
       IN  IF product_data.ok
           THEN /\ turn' = [turn EXCEPT !.pc = Resumed("results_emitted")]
                /\ stream' = Queued(ResultEvent(product_data.value))
           ELSE /\ turn' = [turn EXCEPT !.pc = "crashed"]
                /\ stream' = stream
    /\ UNCHANGED <<chat_history, connected, requests, outsideChat>>
    /\ chat_resp' = NoChatResp

\* save_chat_history(session_id, user_message, full_response, ...) of either
\* branch
Persist ==
    /\ \/ turn.pc = "results_emitted"
       \/ turn.pc = "streaming" /\ turn.response = <<>> /\ ~turn.is_product_search
    /\ chat_history' = save_chat_history(chat_history, turn.session_id,
                                         turn.user_message, turn.full_response,
                                         response_type(turn.is_product_search))
    /\ turn' = [turn EXCEPT !.pc = "persisted"]
    /\ UNCHANGED <<stream, connected, requests, outsideChat>>
    /\ chat_resp' = NoChatResp

\* Faulty variant: the generator returns without its closing event.
CloseSilently ==
    /\ turn.pc = "persisted"
    /\ turn' = [turn EXCEPT !.pc = "done"]
    /\ UNCHANGED <<chat_history, stream, connected, requests, outsideChat>>
    /\ chat_resp' = NoChatResp

\* yield 'data: {"system":"closed"}'
Close ==
    /\ turn.pc = "persisted"
    /\ turn' = [turn EXCEPT !.pc = Resumed("done")]
    /\ stream' = Queued(ClosedEvent)
    /\ UNCHANGED <<chat_history, connected, requests, outsideChat>>
    /\ chat_resp' = NoChatResp

\* a call of the completion service raises, or the iteration over its stream
\* does in place of a chunk: nothing in the generator catches it
ServiceFails ==
    /\ \/ turn.pc \in {"start", "classified"}
       \/ turn.pc = "streaming" /\ turn.response # <<>>
    /\ turn' = [turn EXCEPT !.pc = "crashed"]
    /\ UNCHANGED <<chat_history, stream, connected, requests, outsideChat>>
    /\ chat_resp' = NoChatResp

\* the client goes away while its request is served
Disconnect ==
    /\ connected
    /\ turn.pc \notin Finished
    /\ connected' = FALSE
    /\ UNCHANGED <<chat_history, turn, stream, requests, outsideChat>>
    /\ chat_resp' = NoChatResp

\* Faulty variant: the rows of every session are counted.
DeletedCountAll(rows, session_id) == Len(rows)

\* ChatHistory.objects.filter(session_id=...).delete()[0]
DeletedCount(rows, session_id) == Len(FilterSession(rows, session_id))

\* .order_by('created_at').values('user_message', 'assistant_response',
\* 'message_type', 'created_at')
HistoryValues(rows, session_id) ==
    [i \in 1..Len(FilterSession(rows, session_id)) |->
        [user_message |-> FilterSession(rows, session_id)[i].user_message,
         assistant_response |->
             FilterSession(rows, session_id)[i].assistant_response,
         message_type |-> FilterSession(rows, session_id)[i].message_type]]

\* clear_chat_history
ClearHistory(session_id) ==
    /\ IF session_id = NoSession
       THEN /\ chat_resp' = [NoChatResp EXCEPT !.op = "clear", !.status = 400,
                                               !.error = TRUE]
            /\ chat_history' = chat_history
       ELSE /\ chat_resp' = [NoChatResp EXCEPT
                               !.op = "clear", !.session_id = session_id,
                               !.status = 200,
                               !.deleted = DeletedCount(chat_history, session_id)]
            /\ chat_history' = SelectSeq(chat_history,
                                         LAMBDA row : row.session_id # session_id)
    /\ UNCHANGED <<turn, stream, connected, requests, outsideChat>>

\* get_chat_history_endpoint
GetHistory(session_id) ==
    /\ IF session_id = NoSession
       THEN chat_resp' = [NoChatResp EXCEPT !.op = "history", !.status = 400,
                                           !.error = TRUE]
       ELSE chat_resp' = [NoChatResp EXCEPT
                            !.op = "history", !.session_id = session_id,
                            !.status = 200,
                            !.history = HistoryValues(chat_history, session_id)]
    /\ UNCHANGED <<chat_history, turn, stream, connected, requests, outsideChat>>

\* one chat request after the other, with every way a request can end
ChatNext ==
    \/ \E session_id \in Sessions, message \in {Empty, UserMessage(requests + 1)} :
          StartRequest(session_id, message)
    \/ \E answer \in Answers : Classify(answer)
    \/ \E reply \in Replies : OpenStream(reply)
    \/ Consume
    \/ EmitResults
    \/ Persist
    \/ Close
    \/ ServiceFails
    \/ Disconnect

SpecChat == Init /\ [][ChatNext]_vars

\* the completions that make the rows of the history differ
HistoryReplies ==
    { <<Chunk(Object), NoneChunk>>, <<Chunk(Prose), Chunk(Empty), Chunk(Prose)>> }

\* chat requests that are served to their end, with the history of a session
\* read and cleared in between
HistoryNext ==
    \/ \E session_id \in Sessions : StartRequest(session_id, UserMessage(requests + 1))
    \/ \E answer \in Answers : Classify(answer)
    \/ \E reply \in HistoryReplies : OpenStream(reply)
    \/ Consume
    \/ EmitResults
    \/ Persist
    \/ Close
    \/ \E session_id \in Sessions \cup {NoSession} : ClearHistory(session_id)
    \/ \E session_id \in Sessions \cup {NoSession} : GetHistory(session_id)

SpecHistory == Init /\ [][HistoryNext]_vars

----------------------------------------------------------------------------
(* The product search of the chat assistant: the query and its result *)

RECURSIVE Flatten(_)
Flatten(seqs) ==
    IF seqs = <<>> THEN <<>> ELSE Head(seqs) \o Flatten(Tail(seqs))

\* ids in the order of the table
ById == [p \in ListedIds |-> p]

\* Product.objects.filter(is_active=True)
ActiveProducts(table) == SelectSeq(ById, LAMBDA p : table[p].is_active)

\* Q(name__icontains=...) | Q(description__icontains=...) |
\* Q(short_description__icontains=...)
MatchesType(row, product_type) ==
    \/ icontains(row.name, product_type)
    \/ icontains(row.description, product_type)
    \/ icontains(row.short_description, product_type)

\* Q(category__name__icontains=...) | Q(category__slug__icontains=...)
MatchesCategory(row, category) ==
    \/ icontains(row.category.name, category)
    \/ icontains(row.category.slug, category)

\* color_q: Q(available_colors__hex_code__icontains=color) for one color, or
\* for each color of a list, OR-ed
MatchingColors(row, colors) ==
    SelectSeq(row.available_colors,
              LAMBDA hex : \E k \in 1..Len(colors) : icontains(hex, colors[k]))

\* the filter on available_colors joins the colors of the products: the
\* queryset has one row of a product for each of its colors that matches
ColorJoin(table, queryset, colors) ==
    Flatten([i \in 1..Len(queryset) |->
                [k \in 1..Len(MatchingColors(table[queryset[i]], colors)) |->
                    queryset[i]]])

\* criteria.get('color') and criteria['color'] != 'أي لون'
ColorApplies(color) == Given(color) /\ color # Single(AnyColor)

\* .distinct()
RECURSIVE Distinct(_)
Distinct(queryset) ==
    IF queryset = <<>> THEN <<>>
    ELSE <<Head(queryset)>>
            \o Distinct(SelectSeq(Tail(queryset), LAMBDA p : p # Head(queryset)))

\* the row of p comes before the row of q in order_by('-is_featured',
\* '-created_at')
Before(table, p, q) ==
    \/ table[p].is_featured /\ ~table[q].is_featured
    \/ /\ table[p].is_featured = table[q].is_featured
       /\ table[p].created_at > table[q].created_at

Range(queryset) == {queryset[i] : i \in 1..Len(queryset)}

\* Faulty variant: the oldest products come first.
OrderOldestFirst(table, queryset) ==
    [i \in 1..Len(queryset) |->
        CHOOSE p \in Range(queryset) :
            Cardinality({q \in Range(queryset) :
                            table[q].created_at < table[p].created_at}) = i - 1]

\* .order_by('-is_featured', '-created_at') of a queryset without duplicates
OrderFeaturedNewest(table, queryset) ==
    [i \in 1..Len(queryset) |->
        CHOOSE p \in Range(queryset) :
            Cardinality({q \in Range(queryset) : Before(table, q, p)}) = i - 1]

search_products_by_criteria(criteria, table) ==
    LET active == ActiveProducts(table)
        typed == IF Given(criteria.type)
                 THEN SelectSeq(active,
                        LAMBDA p : MatchesType(table[p], criteria.type.items[1]))
                 ELSE active
        categorised ==
                 IF Given(criteria.category)
                 THEN SelectSeq(typed,
                        LAMBDA p : MatchesCategory(table[p],
                                                   criteria.category.items[1]))
                 ELSE typed
        coloured == IF ColorApplies(criteria.color)
                    THEN ColorJoin(table, categorised, criteria.color.items)
                    ELSE categorised
    IN  FirstN(OrderFeaturedNewest(table, Distinct(coloured)), SearchCap)

\* generate_response: the search is run on the parsed criteria and the result
\* data takes the number of products fetched and the first ten of them
ProductSearch(criteria) ==
    /\ LET products_found == search_products_by_criteria(criteria, ProductTable)
       IN  search' = [called |-> TRUE,
                      criteria |-> criteria,
                      fetched |-> products_found,
                      products_found |-> Len(products_found),
                      products |-> FirstN(products_found, ResultCap)]
    /\ UNCHANGED <<listing, outsideSearch>>

\* the table is edited between two searches
Restock(v) ==
    /\ listing # v
    /\ listing' = v
    /\ search' = NoFound
    /\ UNCHANGED outsideSearch

SearchNext ==
    \/ \E criteria \in Criteria : ProductSearch(criteria)
    \/ \E v \in 1..NumVariants : Restock(v)

SpecSearch == Init /\ [][SearchNext]_vars

----------------------------------------------------------------------------
(* Properties of the similarity search and of the feature cache *)

\* a search whose query embedding was extracted
Searched == resp.op = "search" /\ resp.upload.kind = "ok"

\* a handler that called get_product_features
Called == resp.op \in {"search", "refresh"} /\ resp.called

\* the call recomputed the mapping
Recomputed == Called /\ ~resp.call.hit

\* the mapping the handler was given by get_product_features
Mapping == resp.call.returned

\* where a product sits in a mapping (0: nowhere)
Position(mapping, product_id) ==
    IF product_id \in Keys(mapping)
    THEN CHOOSE i \in DOMAIN mapping : mapping[i].product_id = product_id
    ELSE 0

\* the similarity of the query to the i-th cached product
QuerySimilarity(i) == SimilarityTable[resp.upload.emb, Mapping[i].features]

\* the cached products that find_similar_products left out
LeftOut ==
    { i \in DOMAIN Mapping :
        \A j \in DOMAIN resp.similar :
            resp.similar[j].product_id # Mapping[i].product_id }

\* the active products whose primary image extract_features can embed
Embeddable == { p \in Products : catalog[p].kind = "ok" }

\* C1: with the query embedding extracted, find_similar_products returns at
\* most top_k entries, each a cached product with its similarity to the
\* query, in non-increasing similarity order, and no cached product that is
\* left out is more similar than a returned one.
C1_TopKRanked ==
    Searched =>
        /\ Len(resp.similar) <= resp.top_k
        /\ \A j \in DOMAIN resp.similar :
              LET i == Position(Mapping, resp.similar[j].product_id)
              IN  i # 0 /\ resp.similar[j].similarity = QuerySimilarity(i)
        /\ \A j, k \in DOMAIN resp.similar :
              j < k => resp.similar[j].similarity >= resp.similar[k].similarity
        /\ \A i \in LeftOut : \A j \in DOMAIN resp.similar :
              QuerySimilarity(i) <= resp.similar[j].similarity

\* a search that cut a strictly less similar product off, although the
\* mapping lists that product first
C1_Witness ==
    /\ Searched
    /\ Len(Mapping) > resp.top_k
    /\ 1 \in LeftOut
    /\ \A j \in DOMAIN resp.similar :
          QuerySimilarity(1) < resp.similar[j].similarity

\* C2: every entry of the results list of the image-search endpoint has a
\* similarity of at least 0.5; what find_similar_products returned below
\* 0.5 is not in the response, and what it returned at or above 0.5 is.
C2_FloorApplied ==
    resp.op = "search" =>
        /\ \A i \in DOMAIN resp.results :
              resp.results[i].similarity >= SimilarityFloor
        /\ \A j \in DOMAIN resp.similar :
              (resp.similar[j].similarity >= SimilarityFloor)
                  <=> (\E i \in DOMAIN resp.results :
                          resp.results[i] = resp.similar[j])
        /\ resp.total = Len(resp.results)

\* a 200 answer that dropped one of the returned entries and kept another
C2_Witness ==
    /\ resp.op = "search"
    /\ resp.status = 200
    /\ resp.results # <<>>
    /\ \E j \in DOMAIN resp.similar :
          resp.similar[j].similarity < SimilarityFloor

\* the cached products that clear the floor for the uploaded image
ClearFloor ==
    IF Searched
    THEN { i \in DOMAIN Mapping : QuerySimilarity(i) >= SimilarityFloor }
    ELSE {}

\* C3: the image-search endpoint answers 404 exactly when no product clears
\* the 0.5 floor for the uploaded image, and a 200 answer has a non-empty
\* results list.
C3_NotFoundIffNothingClears ==
    (resp.op = "search" /\ resp.status # 400) =>
        /\ (resp.status = 404) <=> (ClearFloor = {})
        /\ (resp.status = 200) => (resp.results # <<>>)

\* C4: get_product_features(force_refresh=false), called while the cache
\* holds an unexpired mapping of any size, returns exactly that mapping,
\* computes no embedding and writes nothing to the cache.
C4_CachedMappingReturned ==
    (resp.op = "search" /\ resp.called
        /\ resp.before.present /\ ~Expired(resp.before)) =>
        /\ Mapping = resp.before.value
        /\ resp.call.extracted = 0
        /\ ~resp.call.wrote
        /\ cache = resp.before

\* does a mapping hold exactly the embeddings of the embeddable products
MappingOf(mapping, cat) ==
    /\ Keys(mapping) = { p \in Products : cat[p].kind = "ok" }
    /\ Len(mapping) = Cardinality(Keys(mapping))
    /\ \A i \in DOMAIN mapping :
          mapping[i].features = cat[mapping[i].product_id].emb

\* C5: get_product_features(force_refresh=true) recomputes the mapping from
\* the catalog as it is at the call, whatever the cache holds, replaces the
\* cache entry with it (expiry one hour) and returns it; the refresh-features
\* endpoint reports the size of that mapping.
C5_ForceRefreshRecomputes ==
    resp.op = "refresh" =>
        /\ MappingOf(Mapping, catalog)
        /\ cache = [present |-> TRUE, value |-> Mapping,
                    age |-> 0, timeout |-> TTL]
        /\ resp.status = 200
        /\ resp.total = Len(Mapping)

\* a refresh that found a different, non-empty, unexpired mapping cached
C5_Witness ==
    /\ resp.op = "refresh"
    /\ resp.before.present
    /\ ~Expired(resp.before)
    /\ resp.before.value # <<>>
    /\ resp.before.value # Mapping
    /\ Mapping # <<>>

\* C6: a recomputation never aborts on a product whose primary image is
\* missing, unreadable or not embeddable: the handler does not fail, and the
\* mapping holds exactly the active products with a primary image that
\* extract_features embedded, each with a real embedding.
C6_FailuresSkipped ==
    Recomputed =>
        /\ resp.status # 500
        /\ Keys(Mapping) = Embeddable
        /\ \A i \in DOMAIN Mapping : Mapping[i].features # None

\* a recomputation over a catalog in which the newest product cannot be
\* embedded and an older one can
C6_Witness ==
    /\ Recomputed
    /\ catalog[NumProducts].kind \in {"blank", "missing", "corrupt"}
    /\ \E p \in Products : catalog[p].kind = "ok" /\ p \in Keys(Mapping)

\* C7 as stated: whatever catalog and cache are, the mapping that
\* get_product_features returns includes every active product with a valid
\* primary image.
C7_AlwaysIncluded ==
    Called => Embeddable \subseteq Keys(Mapping)

\* C7 amended: when get_product_features recomputes (force_refresh, or no
\* non-empty unexpired mapping cached), the mapping it returns and the cache
\* entry it leaves include every active product with a valid primary image.
C7_IncludedWhenRecomputed ==
    Recomputed =>
        /\ Embeddable \subseteq Keys(Mapping)
        /\ cache.present
        /\ Embeddable \subseteq Keys(cache.value)

\* a recomputation that had to pass a failing product to reach a valid one
C7_Witness ==
    /\ Recomputed
    /\ resp.before.present
    /\ \E p, q \in Products :
          /\ p < q
          /\ catalog[q].kind = "corrupt"
          /\ catalog[p].kind = "ok"
          /\ p \notin Keys(resp.before.value)

\* C8: every cache write sets an expiry of 3600 seconds, and a call without
\* force_refresh never returns a mapping that was stored more than 3600
\* seconds before the call.
C8_NeverOlderThanTTL ==
    /\ cache.present => cache.timeout = TTL
    /\ (Called /\ resp.call.wrote) => (cache.timeout = TTL /\ cache.age = 0)
    /\ (Called /\ resp.call.hit) =>
          (resp.before.age <= TTL /\ resp.before.timeout = TTL)

\* a search served from an entry that was stored some time before
C8_Witness ==
    /\ resp.op = "search"
    /\ resp.called
    /\ resp.call.hit
    /\ resp.before.age > 0

\* C9 as stated: concurrent refreshes take no lock and the last writer wins,
\* and at the moment the last of them finishes the cache holds the mapping of
\* the catalog as it is then, whatever catalog updates ran in between.
C9_ConvergesAtFinish ==
    [][(~AllDone /\ AllDone') => MappingOf(cache'.value, catalog')]_vars

\* C9 amended: concurrent refreshes take no lock and the last writer wins;
\* once all of them have finished, the cache holds the mapping of the
\* catalog, provided the catalog was not updated since the refreshes were
\* requested. Every entry a refresh writes expires after an hour.
C9_ConvergesOnUnchangedCatalog ==
    /\ (AllDone /\ updates = 0) =>
          /\ cache.present
          /\ MappingOf(cache.value, catalog)
          /\ \A w \in Workers : local[w].product_features = cache.value
    /\ cache.present => (cache.timeout = TTL /\ cache.age = 0)

\* both refreshes have finished over a catalog in which the newest product
\* cannot be embedded and an older one can
C9_Witness ==
    /\ AllDone
    /\ updates = 0
    /\ catalog[NumProducts].kind \in {"blank", "missing", "corrupt"}
    /\ \E p \in Products : catalog[p].kind = "ok"

\* C10: in the ranking of find_similar_products two products of equal
\* similarity keep the order of the cached mapping, also across the top_k
\* cut-off: of equally similar products the ones inserted first are returned.
C10_TiesInInsertionOrder ==
    Searched =>
        /\ \A j, k \in DOMAIN resp.similar :
              (j < k /\ resp.similar[j].similarity = resp.similar[k].similarity)
                  => Position(Mapping, resp.similar[j].product_id)
                       < Position(Mapping, resp.similar[k].product_id)
        /\ \A i \in LeftOut : \A j \in DOMAIN resp.similar :
              (QuerySimilarity(i) = resp.similar[j].similarity)
                  => Position(Mapping, resp.similar[j].product_id) < i

\* a search that cut off one of two equally similar products
C10_Witness ==
    /\ Searched
    /\ resp.similar # <<>>
    /\ \E i \in LeftOut : \E j \in DOMAIN resp.similar :
          QuerySimilarity(i) = resp.similar[j].similarity

----------------------------------------------------------------------------
(* Properties of the chat assistant *)

\* the state of the pipeline a chat request is in
Phase(t) ==
    CASE t.pc = "start" -> "START"
      [] t.pc = "classified" -> "INTENT_CLASSIFIED"
      [] t.pc = "streaming" -> IF t.is_product_search
                               THEN "PRODUCT_CRITERIA_EXTRACTION"
                               ELSE "GENERAL_REPLY_EMITTED"
      [] t.pc = "results_emitted" -> "RESULTS_EMITTED"
      [] t.pc = "persisted" -> "HISTORY_PERSISTED"
      [] t.pc = "done" -> "DONE"
      [] OTHER -> "NONE"

Succession ==
    { <<"START", "INTENT_CLASSIFIED">>,
      <<"INTENT_CLASSIFIED", "PRODUCT_CRITERIA_EXTRACTION">>,
      <<"PRODUCT_CRITERIA_EXTRACTION", "RESULTS_EMITTED">>,
      <<"RESULTS_EMITTED", "HISTORY_PERSISTED">>,
      <<"INTENT_CLASSIFIED", "GENERAL_REPLY_EMITTED">>,
      <<"GENERAL_REPLY_EMITTED", "HISTORY_PERSISTED">>,
      <<"HISTORY_PERSISTED", "DONE">> }

EventsOfKind(events, kind) == SelectSeq(events, LAMBDA e : e.kind = kind)

Completed == turn.pc = "done"

\* C11: a chat request that runs to completion goes through START,
\* INTENT_CLASSIFIED, then PRODUCT_CRITERIA_EXTRACTION and RESULTS_EMITTED or
\* GENERAL_REPLY_EMITTED, then HISTORY_PERSISTED, then DONE, one state after
\* the other; its stream begins with its one type event and ends with its one
\* closing event.
C11_PipelineOrder ==
    [][ /\ requests' # requests => Phase(turn') = "START"
        /\ (requests' = requests /\ Phase(turn') # Phase(turn)
                /\ Phase(turn') # "NONE")
              => <<Phase(turn), Phase(turn')>> \in Succession
        /\ turn'.pc = "done"
              => /\ Len(stream') >= 2
                 /\ stream'[1].kind = "type"
                 /\ stream'[Len(stream')].kind = "closed"
                 /\ Len(EventsOfKind(stream', "type")) = 1
                 /\ Len(EventsOfKind(stream', "closed")) = 1 ]_vars

C11_Witness ==
    /\ Completed
    /\ turn.is_product_search
    /\ Len(stream) = 3
    /\ stream[2].kind = "final_result"

RECURSIVE ConcatData(_)
ConcatData(events) ==
    IF events = <<>> THEN Empty
    ELSE Head(events).data \o ConcatData(Tail(events))

\* a step in which the generator takes the next fragment of a general reply
\* and is not closed at its yield
TakesFragment ==
    /\ turn.pc = "streaming"
    /\ turn.response # <<>>
    /\ ~Head(turn.response).none
    /\ ~turn.is_product_search
    /\ turn'.response = Tail(turn.response)
    /\ turn'.pc # "aborted"

\* C12: in a general reply every fragment is forwarded as its own event in
\* the step that takes it from the completion stream, so in the order received
\* and before the next one is taken; a product search forwards no fragment,
\* and its finished stream holds exactly one final result event.
C12_FragmentsForwarded ==
    [][ /\ TakesFragment
              => stream' = Append(stream, ChunkEvent(Head(turn.response).content))
        /\ turn'.is_product_search => EventsOfKind(stream', "chunk") = <<>>
        /\ ~turn'.is_product_search => EventsOfKind(stream', "final_result") = <<>>
        /\ (turn'.pc = "done" /\ turn'.is_product_search)
              => Len(EventsOfKind(stream', "final_result")) = 1
        /\ (turn'.pc = "done" /\ ~turn'.is_product_search)
              => ConcatData(EventsOfKind(stream', "chunk")) = turn'.full_response
      ]_vars

C12_Witness ==
    /\ Completed
    /\ ~turn.is_product_search
    /\ Len(EventsOfKind(stream, "chunk")) = 3
    /\ stream[3].data = Object

\* the content a chunk adds to full_response
Content(chunk) == IF chunk.none THEN Empty ELSE chunk.content

\* a step of the chat request itself
RequestStep == requests' = requests /\ turn' # turn

TakesChunk ==
    /\ RequestStep
    /\ turn.pc = "streaming"
    /\ turn.response # <<>>
    /\ turn'.response = Tail(turn.response)

Persists == RequestStep /\ turn'.pc = "persisted"

\* C13: full_response is the concatenation of the fragments received; the
\* request appends one row, at its save, carrying its session id, its user
\* message, full_response once the completion stream is exhausted, and the
\* type announced in the first event; no other step of the request touches
\* the table, and a request is done only through its save.
C13_OneRecordPerTurn ==
    [][ /\ (RequestStep /\ turn'.pc = "streaming" /\ turn.pc = "classified")
              => turn'.full_response = Empty
        /\ TakesChunk
              => turn'.full_response
                    = turn.full_response \o Content(Head(turn.response))
        /\ (RequestStep /\ turn.pc = "streaming" /\ ~TakesChunk)
              => turn'.full_response = turn.full_response
        /\ Persists
              => /\ turn.response = <<>>
                 /\ chat_history'
                      = Append(chat_history,
                               [session_id |-> turn.session_id,
                                user_message |-> turn.user_message,
                                assistant_response |-> turn.full_response,
                                message_type |-> stream[1].data[1]])
        /\ (RequestStep /\ ~Persists) => chat_history' = chat_history
        /\ requests' # requests => chat_history' = chat_history
        /\ (RequestStep /\ turn'.pc = "done") => turn.pc = "persisted"
      ]_vars

C13_Witness ==
    /\ turn.pc = "persisted"
    /\ turn.is_product_search
    /\ Len(chat_history) = 2
    /\ chat_history[2].message_type = "product_search"
    /\ chat_history[2].assistant_response = Object
    /\ chat_history[2].user_message = turn.user_message

TerminalEventQueued == EventsOfKind(stream, "closed") # <<>>

\* C14: for both intents the row of the turn is written after the terminal
\* event of the stream has been queued, never before it.
C14_PersistedAfterTerminalEvent ==
    turn.pc = "persisted" => TerminalEventQueued

\* the rows the turn being served has written
RowsOfTurn ==
    SelectSeq(chat_history, LAMBDA row : row.user_message = turn.user_message)

\* C15: a turn whose client went away before the terminal event was
\* delivered, or whose completion call failed, leaves no row.
C15_NoRecordUnlessCompleted ==
    turn.pc \in {"aborted", "crashed"} => RowsOfTurn = <<>>

\* the step in which json.loads raises
ParseFailure ==
    /\ turn.pc = "streaming"
    /\ turn.response = <<>>
    /\ turn.is_product_search
    /\ ~IsObject(turn.full_response)
    /\ turn'.pc = "crashed"

\* the step in which a call of the completion service raises
ServiceFailure ==
    /\ turn.pc # "crashed"
    /\ turn'.pc = "crashed"
    /\ ~ParseFailure

\* C16: when the completion service raises during either call, the last event
\* of the stream is an error event.
C16_ErrorEventOnServiceFailure ==
    [][ServiceFailure
          => /\ stream' # <<>>
             /\ stream'[Len(stream')].kind = "error"]_vars

\* the completion stream of a product search has ended and the text it
\* produced does not parse as a JSON object
UnparsableOutput ==
    /\ turn.pc = "streaming"
    /\ turn.response = <<>>
    /\ turn.is_product_search
    /\ ~IsObject(turn.full_response)

\* C17: a product search whose output does not parse falls back to the
\* delivery of a general reply: the parse error does not end the request.
C17_FallsBackOnUnparsableOutput ==
    [][(UnparsableOutput /\ RequestStep) => turn'.pc # "crashed"]_vars

\* the first balanced JSON object inside a text, Empty when there is none
Opens(text) == {i \in 1..Len(text) : text[i] = "{"}
Closes(text, i) == {j \in (i + 1)..Len(text) : text[j] = "}"}
Least(S) == CHOOSE n \in S : \A m \in S : n <= m

FirstObject(text) ==
    IF Opens(text) = {} THEN Empty
    ELSE IF Closes(text, Least(Opens(text))) = {} THEN Empty
    ELSE SubSeq(text, Least(Opens(text)),
                Least(Closes(text, Least(Opens(text)))))

\* the completion stream of a product search has ended and the text it
\* produced is a JSON object with prose around it
WrappedOutput ==
    /\ UnparsableOutput
    /\ IsObject(FirstObject(turn.full_response))

\* C18: a JSON object wrapped in prose is extracted and used as the search
\* criteria: the request goes on to the final result event it yields for the
\* bare object.
C18_WrappedObjectExtracted ==
    [][(WrappedOutput /\ RequestStep /\ connected)
          => /\ turn'.pc = "results_emitted"
             /\ stream' = Append(stream,
                    ResultEvent(json_loads(FirstObject(turn.full_response)).value))
      ]_vars

Classified == turn.pre_messages # <<>>

\* C19: the intent call receives the current user message after the last
\* three turns of the context, or all of the context when it holds fewer, a
\* turn being a user message with its assistant response.
C19_IntentSeesThreeTurns ==
    Classified
      => turn.pre_messages
            = LastN(turn.chat_context, 2 * IntentWindow)
                \o <<[role |-> "user", content |-> turn.user_message]>>

\* the rows of a session, oldest first
TurnsOf(session_id) ==
    SelectSeq(chat_history, LAMBDA row : row.session_id = session_id)

\* C20: get_chat_history(session, limit) returns the messages of the
\* min(limit, n) most recent turns of that session and of no other, oldest
\* first, each turn as its user message then its assistant response; in every
\* state chat requests and clears lead to.
C20_RecentTurnsOldestFirst ==
    \A session_id \in Sessions, limit \in 1..DefaultLimit :
        LET context == get_chat_history(chat_history, session_id, limit)
            n == Len(TurnsOf(session_id))
            k == IF limit < n THEN limit ELSE n
        IN  /\ Len(context) = 2 * k
            /\ \A j \in 1..k :
                  /\ context[2 * j - 1]
                        = [role |-> "user",
                           content |-> TurnsOf(session_id)[n - k + j].user_message]
                  /\ context[2 * j]
                        = [role |-> "assistant",
                           content |->
                               TurnsOf(session_id)[n - k + j].assistant_response]

C20_Witness ==
    /\ Len(chat_history) = 3
    /\ chat_history[1].session_id = "s1"
    /\ chat_history[2].session_id = "s2"
    /\ chat_history[3].session_id = "s1"
    /\ chat_history[3].assistant_response = Object
    /\ get_chat_history(chat_history, "s1", 1)
          = <<[role |-> "user", content |-> chat_history[3].user_message],
              [role |-> "assistant", content |-> Object]>>

----------------------------------------------------------------------------
(* Properties of the history endpoints and of the rejected chat request *)

\* the positions of the rows of a session in a table, and the m-th of them
RowsAt(rows, session_id) ==
    {i \in 1..Len(rows) : rows[i].session_id = session_id}

Nth(S, m) == CHOOSE i \in S : Cardinality({x \in S : x < i}) = m - 1

Cleared == chat_resp'.op = "clear" /\ chat_resp'.status = 200
Listed == chat_resp'.op = "history" /\ chat_resp'.status = 200

\* C21: a clear answers the number of rows the session has, which is the
\* number persisted for it since its last clear: rows of a session come one by
\* one and go only by its clear; after the clear the history endpoint has no
\* row to return for the session, and the rows of other sessions are as
\* before; the history endpoint returns the rows of the session in the order
\* of insertion.
C21_ClearCountsAndEmpties ==
    [][ /\ Cleared
              => /\ chat_resp'.deleted
                      = Cardinality(RowsAt(chat_history, chat_resp'.session_id))
                 /\ RowsAt(chat_history', chat_resp'.session_id) = {}
                 /\ HistoryValues(chat_history', chat_resp'.session_id) = <<>>
                 /\ \A other \in Sessions \ {chat_resp'.session_id} :
                       FilterSession(chat_history', other)
                          = FilterSession(chat_history, other)
        /\ ~Cleared
              => \A session_id \in Sessions :
                    \/ FilterSession(chat_history', session_id)
                          = FilterSession(chat_history, session_id)
                    \/ /\ Persists
                       /\ turn.session_id = session_id
                       /\ Len(FilterSession(chat_history', session_id))
                             = Len(FilterSession(chat_history, session_id)) + 1
        /\ Listed
              => /\ chat_history' = chat_history
                 /\ Len(chat_resp'.history)
                       = Cardinality(RowsAt(chat_history, chat_resp'.session_id))
                 /\ \A m \in 1..Len(chat_resp'.history) :
                       LET row == chat_history[Nth(RowsAt(chat_history,
                                                          chat_resp'.session_id), m)]
                       IN  chat_resp'.history[m]
                              = [user_message |-> row.user_message,
                                 assistant_response |-> row.assistant_response,
                                 message_type |-> row.message_type]
      ]_vars

C21_Witness ==
    /\ chat_resp.op = "clear"
    /\ chat_resp.deleted = 2
    /\ Len(chat_history) = 1

----------------------------------------------------------------------------
(* Properties of the product search *)

\* a criterion that is absent, or is the 'any' sentinel, alone or in a list
Unconstrained(value) ==
    \/ ~Given(value)
    \/ \E k \in 1..Len(value.items) : value.items[k] = AnyColor

Relaxed(value) == IF Unconstrained(value) THEN Absent ELSE value

\* C22: a criterion that is absent or is the 'any' sentinel, as a single
\* value or inside a list of colors, never narrows the result: the search
\* returns what it returns without that criterion.
C22_SentinelNeverNarrows ==
    search.called
      => search.fetched
            = search_products_by_criteria(
                  [type |-> Relaxed(search.criteria.type),
                   category |-> Relaxed(search.criteria.category),
                   color |-> Relaxed(search.criteria.color)],
                  ProductTable)

\* the product satisfies the criteria the search applied
Satisfies(p, criteria) ==
    /\ ProductTable[p].is_active
    /\ Given(criteria.type) => MatchesType(ProductTable[p], criteria.type.items[1])
    /\ Given(criteria.category)
          => MatchesCategory(ProductTable[p], criteria.category.items[1])
    /\ ColorApplies(criteria.color)
          => \E i \in 1..Len(ProductTable[p].available_colors) :
                \E k \in 1..Len(criteria.color.items) :
                    icontains(ProductTable[p].available_colors[i],
                              criteria.color.items[k])

\* C23: the products fetched are active products that satisfy every applied
\* criterion, each once, featured first and newest first among equals, the
\* first 20 of all such products in that order; the caller receives the first
\* 10 of them.
C23_ActiveOrderedCapped ==
    search.called
      => /\ \A i \in 1..Len(search.fetched) :
                Satisfies(search.fetched[i], search.criteria)
         /\ \A i, j \in 1..Len(search.fetched) :
                i < j => /\ search.fetched[i] # search.fetched[j]
                         /\ Before(ProductTable, search.fetched[i], search.fetched[j])
         /\ Len(search.fetched) <= SearchCap
         /\ \A p \in ListedIds :
                (Satisfies(p, search.criteria) /\ p \notin Range(search.fetched))
                  => /\ Len(search.fetched) = SearchCap
                     /\ Before(ProductTable, search.fetched[SearchCap], p)
         /\ search.products_found = Len(search.fetched)
         /\ Len(search.products) <= ResultCap
         /\ search.products
               = SubSeq(search.fetched, 1, Len(search.products))
         /\ Len(search.fetched) >= ResultCap => Len(search.products) = ResultCap
         /\ Len(search.fetched) < ResultCap => search.products = search.fetched

C23_Witness ==
    /\ search.called
    /\ Len(search.fetched) = SearchCap
    /\ Len(search.products) = ResultCap
    /\ ProductTable[search.fetched[1]].is_featured
    /\ ~ProductTable[search.fetched[SearchCap]].is_featured
    /\ \E p \in ListedIds : ProductTable[p].is_active /\ p \notin Range(search.fetched)

----------------------------------------------------------------------------
(* Properties of the validation of requests *)

SearchAnswered == resp.op = "search"

\* nothing was done for the upload: no temporary file, no extraction, no
\* look at the feature cache, which is as it was
NothingDone ==
    /\ ~resp.temp_file
    /\ ~resp.called
    /\ resp.call = NoCall
    /\ cache = resp.before

NoMessageAnswered == chat_resp'.op = "chat" /\ chat_resp'.message = Empty

\* C25: a chat request without a message (missing or empty) is answered 400
\* with an error field; no completion call is started for it, the chat
\* history is neither read nor written and the request being served, if any,
\* is as before.
C25_NoMessageRejected ==
    [][NoMessageAnswered
          => /\ chat_resp'.status = 400
             /\ chat_resp'.error
             /\ UNCHANGED <<chat_history, turn, stream, connected, requests>>
      ]_vars

C25_Witness ==
    /\ chat_resp.op = "chat"
    /\ chat_resp.status = 400
    /\ chat_resp.error
    /\ Len(chat_history) = 1
    /\ turn.pc = "done"

----------------------------------------------------------------------------
(* The cart endpoints, served one at a time *)

InCart(items, product) == \E i \in 1..Len(items) : items[i].product = product
QuantityOf(items, product) ==
    LET i == CHOOSE i \in 1..Len(items) : items[i].product = product
    IN  items[i].quantity
Without(items, product) == SelectSeq(items, LAMBDA row : row.product # product)

\* CartItem.objects.get_or_create(cart=cart, product=product, defaults=...)
get_or_create(items, product, quantity) ==
    IF InCart(items, product)
    THEN [items |-> items, created |-> FALSE]
    ELSE [items |-> Append(items, CartItem(product, quantity)), created |-> TRUE]

\* cart_item.quantity = quantity; cart_item.save()
Save(items, product, quantity) ==
    [i \in 1..Len(items) |->
        IF items[i].product = product THEN CartItem(product, quantity) ELSE items[i]]

\* get_or_create, and quantity += ... when the row was there
AddItem(items, product, quantity) ==
    LET got == get_or_create(items, product, quantity)
    IN  IF got.created
        THEN got.items
        ELSE Save(items, product, QuantityOf(items, product) + quantity)

\* AddToCartSerializer: quantity = IntegerField(min_value=1, default=1)
AddToCartValid(quantity) == quantity >= 1

CartResp(op, status) == [NoCartResp EXCEPT !.op = op, !.status = status]

cart_add_api(product_id, quantity) ==
    LET answer(status) ==
            [CartResp("add", status) EXCEPT !.product_id = product_id,
                                             !.quantity = Number(quantity)]
    IN
    /\ IF ~AddToCartValid(quantity)
       THEN /\ cart_resp' = answer(400)
            /\ UNCHANGED <<cart_items, has_cart>>
       ELSE /\ has_cart' = TRUE
            /\ IF product_id \notin Products
               THEN \* get_object_or_404 raises Http404, which except Exception catches
                    /\ cart_resp' = answer(500)
                    /\ UNCHANGED cart_items
               ELSE /\ cart_items' = AddItem(cart_items, product_id, quantity)
                    /\ QuantityOf(cart_items', product_id) <= MaxQuantity
                    /\ cart_resp' = answer(200)
    /\ UNCHANGED <<adders, requested, outsideCart>>

\* the loop of bulk_add_cart_api: the rows it leaves and whether it got through
RECURSIVE BulkLoop(_, _)
BulkLoop(items, todo) ==
    IF todo = <<>>
    THEN [items |-> items, failed |-> FALSE]
    ELSE IF Head(todo).product \notin Products
         THEN [items |-> items, failed |-> TRUE]
         ELSE BulkLoop(AddItem(items, Head(todo).product, Head(todo).quantity),
                       Tail(todo))

bulk_add_cart_api(items) ==
    LET answer(status) == [CartResp("bulk", status) EXCEPT !.items = items]
        done == BulkLoop(cart_items, items)
    IN
    /\ IF items = <<>>
       THEN /\ cart_resp' = answer(400)
            /\ UNCHANGED <<cart_items, has_cart>>
       ELSE /\ has_cart' = TRUE
            /\ IF \E i \in 1..Len(items) : ~AddToCartValid(items[i].quantity)
               THEN /\ cart_resp' = answer(400)
                    /\ UNCHANGED cart_items
               ELSE /\ cart_items' = done.items
                    /\ \A i \in 1..Len(cart_items') :
                          cart_items'[i].quantity <= MaxQuantity
                    /\ cart_resp' = answer(IF done.failed THEN 500 ELSE 200)
    /\ UNCHANGED <<adders, requested, outsideCart>>

\* Python's truth value of a request value, `a or b`, and int(a)
IsTrue(value) ==
    \/ value.kind \in {"str", "word"}
    \/ value.kind = "int" /\ value.n # 0
Or(a, b) == IF IsTrue(a) THEN a ELSE b
IsInt(value) == value.kind \in {"int", "str"}

cart_update_api(product_id, product_quantity, quantity_sent) ==
    LET given == Or(product_quantity, quantity_sent)
        quantity == given.n
        answer(status) ==
            [CartResp("update", status) EXCEPT !.product_id = product_id,
                                                !.product_quantity = product_quantity,
                                                !.quantity = quantity_sent]
    IN
    /\ IF \/ product_id = 0
          \/ given.kind = "none"
          \/ ~IsInt(given)
          \/ quantity < 0
       THEN /\ cart_resp' = answer(400)
            /\ UNCHANGED cart_items
       ELSE IF ~has_cart \/ ~InCart(cart_items, product_id)
       THEN /\ cart_resp' = answer(404)
            /\ UNCHANGED cart_items
       ELSE IF quantity = 0
       THEN /\ cart_items' = Without(cart_items, product_id)
            /\ cart_resp' = answer(200)
       ELSE /\ cart_items' = Save(cart_items, product_id, quantity)
            /\ cart_resp' = answer(200)
    /\ UNCHANGED <<has_cart, adders, requested, outsideCart>>

cart_delete_api(product_id) ==
    LET answer(status) ==
            [CartResp("delete", status) EXCEPT !.product_id = product_id]
    IN
    /\ IF product_id = 0
       THEN /\ cart_resp' = answer(400)
            /\ UNCHANGED cart_items
       ELSE IF ~has_cart \/ ~InCart(cart_items, product_id)
       THEN /\ cart_resp' = answer(404)
            /\ UNCHANGED cart_items
       ELSE /\ cart_items' = Without(cart_items, product_id)
            /\ cart_resp' = answer(200)
    /\ UNCHANGED <<has_cart, adders, requested, outsideCart>>

clear_cart_api ==
    /\ IF ~has_cart
       THEN /\ cart_resp' = CartResp("clear", 404)
            /\ UNCHANGED cart_items
       ELSE /\ cart_items' = <<>>
            /\ cart_resp' = CartResp("clear", 200)
    /\ UNCHANGED <<has_cart, adders, requested, outsideCart>>

ProductIds == Products \cup {Unlisted}
BulkItems == { CartItem(p, q) : p \in ProductIds, q \in AddQuantities }
BulkRequests == {<<>>} \cup { <<a>> : a \in BulkItems } \cup (BulkItems \X BulkItems)
QuantitiesSent ==
    {NotSent, Word, Number(-1), Number(0), Text(0)}
        \cup { Number(n) : n \in 1..MaxQuantity }

CartNext ==
    \/ \E p \in ProductIds, q \in AddQuantities : cart_add_api(p, q)
    \/ \E items \in BulkRequests : bulk_add_cart_api(items)
    \/ \E p \in ProductIds \cup {0}, a \in QuantitiesSent,
          b \in {NotSent, Number(0), Number(1)} :
          cart_update_api(p, a, b)
    \/ \E p \in ProductIds \cup {0} : cart_delete_api(p)
    \/ clear_cart_api

SpecCart == Init /\ [][CartNext]_vars

----------------------------------------------------------------------------
(* Properties of the cart *)

OneItemPerProduct(items) ==
    \A i, j \in 1..Len(items) : items[i].product = items[j].product => i = j
QuantitiesPositive(items) ==
    \A i \in 1..Len(items) : items[i].quantity >= 1

\* an add request was accepted for a product the cart already held
AddedToExisting ==
    /\ cart_resp'.op = "add"
    /\ cart_resp'.status = 200
    /\ InCart(cart_items, cart_resp'.product_id)

AddIncreases ==
    AddedToExisting
        => QuantityOf(cart_items', cart_resp'.product_id)
              = QuantityOf(cart_items, cart_resp'.product_id) + cart_resp'.quantity.n

\* an update request that asks for quantity 0 (under either key, as a JSON
\* number or as form text) for a product the cart holds
IsZero(value) == value.kind \in {"int", "str"} /\ value.n = 0
UpdatedToZero ==
    /\ cart_resp'.op = "update"
    /\ has_cart
    /\ InCart(cart_items, cart_resp'.product_id)
    /\ \/ IsZero(cart_resp'.product_quantity) /\ cart_resp'.quantity = NotSent
       \/ IsZero(cart_resp'.quantity) /\ cart_resp'.product_quantity = NotSent

ZeroRemoves ==
    UpdatedToZero => ~InCart(cart_items', cart_resp'.product_id)

\* C26: after any sequence of cart_add_api, bulk_add_cart_api,
\* cart_update_api, cart_delete_api and clear_cart_api calls the cart holds at
\* most one item per product and every item has a quantity of at least 1;
\* adding a product already in the cart increases its quantity by the added
\* amount, and an update to quantity 0 removes the item.
C26_CartWellFormed ==
    [][/\ OneItemPerProduct(cart_items')
       /\ QuantitiesPositive(cart_items')
       /\ AddIncreases
       /\ ZeroRemoves
      ]_vars

----------------------------------------------------------------------------
(* Cart additions served at the same time: cart_add_api query by query *)

Held(items, product) ==
    IF InCart(items, product) THEN QuantityOf(items, product) ELSE 0

\* the request is validated, the cart is fetched or made, and get_or_create
\* looks the item up
AddBegin(w, product_id, quantity) ==
    /\ adders[w].pc = "idle"
    /\ AddToCartValid(quantity)
    /\ requested[product_id] + quantity <= MaxQuantity
    /\ requested' = [requested EXCEPT ![product_id] = @ + quantity]
    /\ has_cart' = TRUE
    /\ adders' = [adders EXCEPT ![w] =
            [pc |-> IF InCart(cart_items, product_id) THEN "save" ELSE "create",
             product |-> product_id,
             quantity |-> quantity,
             item |-> Held(cart_items, product_id)]]
    /\ cart_resp' = NoCartResp
    /\ UNCHANGED <<cart_items, outsideCart>>

\* get_or_create found no row and inserts one; unique_together makes the
\* insert fail when the row has appeared meanwhile, and get_or_create then
\* fetches it
AddCreate(w) ==
    /\ adders[w].pc = "create"
    /\ IF InCart(cart_items, adders[w].product)
       THEN /\ adders' = [adders EXCEPT ![w].pc = "fetch"]
            /\ UNCHANGED cart_items
       ELSE /\ cart_items' =
                Append(cart_items, CartItem(adders[w].product, adders[w].quantity))
            /\ adders' = [adders EXCEPT ![w] = IdleAdder]
    /\ cart_resp' = NoCartResp
    /\ UNCHANGED <<has_cart, requested, outsideCart>>

AddFetch(w) ==
    /\ adders[w].pc = "fetch"
    /\ adders' = [adders EXCEPT ![w].pc = "save",
                                ![w].item = Held(cart_items, adders[w].product)]
    /\ cart_resp' = NoCartResp
    /\ UNCHANGED <<cart_items, has_cart, requested, outsideCart>>

\* cart_item.quantity += product_quantity; cart_item.save()
AddSave(w) ==
    /\ adders[w].pc = "save"
    /\ cart_items' = Save(cart_items, adders[w].product,
                          adders[w].item + adders[w].quantity)
    /\ adders' = [adders EXCEPT ![w] = IdleAdder]
    /\ cart_resp' = NoCartResp
    /\ UNCHANGED <<has_cart, requested, outsideCart>>

CartRaceNext ==
    \/ \E w \in Workers, p \in Products, q \in AddQuantities : AddBegin(w, p, q)
    \/ \E w \in Workers : AddCreate(w)
    \/ \E w \in Workers : AddFetch(w)
    \/ \E w \in Workers : AddSave(w)

SpecCartRace == Init /\ [][CartRaceNext]_vars

AddersIdle == \A w \in Workers : adders[w].pc = "idle"

\* C27: concurrent cart_add_api requests for the same product in the same
\* cart leave the item's quantity increased by the sum of the quantities they
\* add, under every interleaving: once the requests have finished, the item
\* holds everything that was asked for and the product has one item only.
C27_NoLostAddition ==
    AddersIdle =>
        /\ OneItemPerProduct(cart_items)
        /\ \A p \in Products : Held(cart_items, p) = requested[p]

----------------------------------------------------------------------------
(* The checkout: CheckoutView.post query by query, with the shopper's cart
   additions in between *)

outsideCheckout == <<outsideShop, cart_resp, adders, requested, defaultVars>>

\* Discount.is_valid
is_valid(d) ==
    /\ d.is_active
    /\ d.in_window
    /\ d.used_count < d.max_uses

\* Model.__init__ raises TypeError for a keyword that names no field
ModelAccepts(kwargs) == kwargs \subseteq OrderFields

Answered(c, status) == [c EXCEPT !.pc = "idle", !.status = status]

\* serializer.is_valid(raise_exception=True), with validate_discount_code;
\* the lookups of the billing address, the shipping method and the card are
\* drawn as found or not
CheckoutBegin(w, code, found) ==
    /\ checkouts[w].pc = "idle"
    /\ checkouts' = [checkouts EXCEPT ![w] =
            IF code /\ ~is_valid(discount)
            THEN Answered(IdleCheckout, 400)
            ELSE [IdleCheckout EXCEPT !.pc = "cart", !.code = code, !.found = found]]
    /\ UNCHANGED <<cart_items, has_cart, orders, discount, outsideCheckout>>

\* CartAPIView.post: the shopper adds to the cart
CartPost(product_id, quantity) ==
    /\ AddToCartValid(quantity)
    /\ has_cart' = TRUE
    /\ cart_items' = AddItem(cart_items, product_id, quantity)
    /\ QuantityOf(cart_items', product_id) <= MaxQuantity
    /\ UNCHANGED <<orders, discount, checkouts, outsideCheckout>>

\* the next query of a checkout that passed validation
CheckoutStep(w) ==
    LET c == checkouts[w]
        to(next) == [checkouts EXCEPT ![w] = next]
    IN
    /\ c.pc # "idle"
    /\ CASE c.pc = "cart" ->
              \* get_object_or_404(Cart, user=user); cart.items.exists()
              /\ checkouts' = to(IF ~has_cart THEN Answered(c, 404)
                                 ELSE IF cart_items = <<>> THEN Answered(c, 400)
                                 ELSE [c EXCEPT !.pc = "lookup", !.had_items = TRUE])
              /\ UNCHANGED <<cart_items, orders, discount>>
         [] c.pc = "lookup" ->
              \* the get_object_or_404 lookups, and Discount.objects.get
              /\ checkouts' = to(IF ~c.found THEN Answered(c, 404)
                                 ELSE [c EXCEPT !.pc = "create",
                                                !.used_count = IF c.code
                                                               THEN discount.used_count
                                                               ELSE 0])
              /\ UNCHANGED <<cart_items, orders, discount>>
         [] c.pc = "create" ->
              \* Order.objects.create(user=user, order_number=..., ...)
              IF ~ModelAccepts(CreateKwargs)
              THEN /\ checkouts' = to(Answered(c, 500))
                   /\ UNCHANGED <<cart_items, orders, discount>>
              ELSE /\ orders' = Append(orders, [items |-> <<>>, status |-> "pending"])
                   /\ checkouts' = to([c EXCEPT !.pc = "copy", !.order = Len(orders')])
                   /\ UNCHANGED <<cart_items, discount>>
         [] c.pc = "copy" ->
              \* for cart_item in cart.items.all(): order.items.create(...)
              IF ItemsAccessor \notin OrderAccessors
              THEN /\ checkouts' = to(Answered(c, 500))
                   /\ UNCHANGED <<cart_items, orders, discount>>
              ELSE /\ orders' = [orders EXCEPT ![c.order].items = cart_items]
                   /\ checkouts' = to([c EXCEPT !.pc = "discount"])
                   /\ UNCHANGED <<cart_items, discount>>
         [] c.pc = "discount" ->
              \* discount.used_count += 1; discount.save()
              /\ discount' = IF c.code
                             THEN [discount EXCEPT !.used_count = c.used_count + 1]
                             ELSE discount
              /\ checkouts' = to([c EXCEPT !.pc = "clear"])
              /\ UNCHANGED <<cart_items, orders>>
         [] c.pc = "clear" ->
              \* cart.items.all().delete()
              /\ cart_items' = <<>>
              /\ checkouts' = to([c EXCEPT !.pc = "finish", !.removed = cart_items])
              /\ UNCHANGED <<orders, discount>>
         [] c.pc = "finish" ->
              \* order.status = 'processing'; order.save()
              /\ orders' = [orders EXCEPT ![c.order].status = "processing"]
              /\ checkouts' = to(Answered(c, 201))
              /\ UNCHANGED <<cart_items, discount>>
    /\ UNCHANGED <<has_cart, outsideCheckout>>

CheckoutNext ==
    \/ \E w \in Workers, code \in BOOLEAN, found \in BOOLEAN :
          CheckoutBegin(w, code, found)
    \/ \E w \in Workers : CheckoutStep(w)
    \/ \E p \in Products, q \in AddQuantities : CartPost(p, q)

SpecCheckout == Init /\ [][CheckoutNext]_vars

----------------------------------------------------------------------------
(* Properties of the checkout *)

\* the checkout of w has been answered
HasAnswered(c) == c.pc = "idle" /\ c.status # 0
\* it passed validation, found items in the cart and found what it looked up
Accepted(c) == c.had_items /\ c.found

----------------------------------------------------------------------------
(* Billing addresses and payment cards: BillingAddressViewSet and
   PaymentCardViewSet, served one at a time *)

Row(user, table, is_default) ==
    [user |-> user, table |-> table, is_default |-> is_default,
     payment_token |-> EmptyToken]

Owns(rows, user, table, id) ==
    /\ id \in 1..Len(rows)
    /\ rows[id].user = user
    /\ rows[id].table = table

\* objects.filter(user=user, is_default=True).exclude(id=id).update(is_default=False)
ClearExcept(rows, user, table, id) ==
    [i \in 1..Len(rows) |->
        IF rows[i].user = user /\ rows[i].table = table /\ i # id
        THEN [rows[i] EXCEPT !.is_default = FALSE]
        ELSE rows[i]]
\* objects.filter(user=user, is_default=True).update(is_default=False)
Clear(rows, user, table) == ClearExcept(rows, user, table, NoRecord)

\* the save() of both models, ahead of the write of the row itself
BeforeSave(rows, row) ==
    IF row.is_default THEN Clear(rows, row.user, row.table) ELSE rows

\* the unique constraint on payment_token
TokenTaken(rows, row) ==
    /\ row.table = "card"
    /\ \E i \in 1..Len(rows) :
          rows[i].table = "card" /\ rows[i].payment_token = row.payment_token

RecordResp(op, user, table, id, sent, status) ==
    [op |-> op, user |-> user, table |-> table, id |-> id,
     is_default |-> sent, status |-> status]

\* POST: perform_create, serializer.save(user=...), the model's save()
perform_create(user, table, sent) ==
    LET row == Row(user, table, sent = "true")
        cleared == IF sent = "true" THEN Clear(records, user, table) ELSE records
        saving == BeforeSave(cleared, row)
    IN
    /\ Len(records) < MaxRecords
    /\ IF TokenTaken(saving, row)
       THEN \* the insert raises IntegrityError
            /\ records' = saving
            /\ record_resp' = RecordResp("create", user, table, NoRecord, sent, 500)
            /\ UNCHANGED last_default
       ELSE /\ records' = Append(saving, row)
            /\ record_resp' =
                  RecordResp("create", user, table, Len(records'), sent, 201)
            /\ last_default' = IF sent = "true"
                               THEN [last_default EXCEPT ![user, table] = Len(records')]
                               ELSE last_default
    /\ UNCHANGED outsideDefaults

\* PUT or PATCH: get_object, perform_update, serializer.save(), the model's save()
perform_update(user, table, id, sent) ==
    IF ~Owns(records, user, table, id)
    THEN /\ record_resp' = RecordResp("update", user, table, id, sent, 404)
         /\ UNCHANGED <<records, last_default, outsideDefaults>>
    ELSE
    LET row == [records[id] EXCEPT
                    !.is_default = IF sent = "unset" THEN @ ELSE sent = "true"]
        cleared == IF sent = "true"
                   THEN ClearExcept(records, user, table, id)
                   ELSE records
        saving == BeforeSave(cleared, row)
    IN
    /\ records' = [saving EXCEPT ![id] = row]
    /\ record_resp' = RecordResp("update", user, table, id, sent, 200)
    /\ last_default' =
          IF sent = "true" THEN [last_default EXCEPT ![user, table] = id]
          ELSE IF sent = "false" /\ last_default[user, table] = id
               THEN [last_default EXCEPT ![user, table] = NoRecord]
          ELSE last_default
    /\ UNCHANGED outsideDefaults

\* POST .../set_default/
set_default(user, table, id) ==
    IF ~Owns(records, user, table, id)
    THEN /\ record_resp' = RecordResp("set_default", user, table, id, "true", 404)
         /\ UNCHANGED <<records, last_default, outsideDefaults>>
    ELSE
    LET row == [records[id] EXCEPT !.is_default = TRUE]
        saving == BeforeSave(Clear(records, user, table), row)
    IN
    /\ records' = [saving EXCEPT ![id] = row]
    /\ record_resp' = RecordResp("set_default", user, table, id, "true", 200)
    /\ last_default' = [last_default EXCEPT ![user, table] = id]
    /\ UNCHANGED outsideDefaults

DefaultsNext ==
    \/ \E u \in Users, t \in Tables, sent \in DefaultsSent :
          perform_create(u, t, sent)
    \/ \E u \in Users, t \in Tables, id \in 1..MaxRecords, sent \in DefaultsSent :
          perform_update(u, t, id, sent)
    \/ \E u \in Users, t \in Tables, id \in 1..MaxRecords : set_default(u, t, id)

SpecDefaults == Init /\ [][DefaultsNext]_vars

----------------------------------------------------------------------------
(* Properties of the default records *)

DefaultsOf(rows, user, table) ==
    { i \in 1..Len(rows) :
        rows[i].user = user /\ rows[i].table = table /\ rows[i].is_default }

AtMostOneDefault(rows) ==
    \A u \in Users, t \in Tables : Cardinality(DefaultsOf(rows, u, t)) <= 1

\* the row most recently made the default (and not unset by an update since)
\* is the default
LatestIsDefault(rows, latest) ==
    \A u \in Users, t \in Tables :
        latest[u, t] # NoRecord => DefaultsOf(rows, u, t) = {latest[u, t]}

OthersUntouched ==
    \A i \in 1..Len(records) :
        records[i].user # record_resp'.user => records'[i] = records[i]

\* C30: after any sequence of create, update and set_default operations on a
\* user's billing addresses, and likewise on payment cards, at most one record
\* of that user has is_default = true, the record most recently set as default
\* is the default, and no record of another user is changed.
C30_SingleDefault ==
    [][/\ AtMostOneDefault(records')
       /\ LatestIsDefault(records', last_default')
       /\ OthersUntouched
      ]_vars

====
